---- MODULE Spec2Model ----
(***************************************************************************)
(* State-machine model of MCServerStatus.py: a Discord client that tracks  *)
(* Minecraft servers, mirrors each server's status into one message, polls *)
(* every second, and keeps the tracked list in info.json.                  *)
(*                                                                         *)
(* All coroutines run on one asyncio event loop.  A coroutine runs without *)
(* interruption up to an await that really suspends (channel.send,         *)
(* message.edit, channel.fetch_message); each action below is one such     *)
(* uninterrupted stretch.  write_json_file contains no await, so awaiting  *)
(* it never suspends and it belongs to the stretch that calls it.          *)
(***************************************************************************)
EXTENDS Integers, Sequences, FiniteSets

VARIABLES
    servers,   \* client.servers: sequence of MCServer records
    file,      \* info.json: [exists, data]
    msgs,      \* messages ever created in Discord, indexed by message id
    adds,      \* addserver_command coroutines suspended in channel.send
    loads,     \* on_ready coroutines suspended in channel.fetch_message
    poll,      \* the poll_servers task
    removed,   \* history: message ids of targets taken out by removeserver
    events,    \* how many commands and outside events have happened
    out,       \* the last step taken and what it answered
    shown      \* one status reply and the text get_status makes of it

vars == <<servers, file, msgs, adds, loads, poll, removed, events, out, shown>>

----------------------------------------------------------------------------
(* Bounds *)

MaxMsgs  == 3   \* messages the messaging service will create
MaxAdds  == 2   \* addserver_command coroutines suspended at once
MaxLoads == 2   \* on_ready coroutines suspended at once
MaxEvents == 4  \* commands, on_ready events, restarts and deletions in a run
MaxPlayers == 3 \* players a status reply counts and names

----------------------------------------------------------------------------
(* Inputs *)

DefaultPort == 25565

Ips      == { <<"a">>, <<"b">> }
Names    == { "n1", "n2" }
Ports    == { DefaultPort }
Frags    == { <<>>, <<"a">>, <<"b">> }
Channels == { "c1", "c2", "c3" }

\* addserver is called from one channel of each guild; removeserver from
\* every channel
AddChannels == { "c1", "c3" }

\* message.guild / message.channel.guild: the guild a channel belongs to
GuildOf(c) == IF c = "c3" THEN "g2" ELSE "g1"

\* outcomes of self.server.status() as get_content sees them
StatusResults == { "online", "nosample", "fail" }

----------------------------------------------------------------------------
(* Pure helpers *)

DigitChar(d) == CASE d = 0 -> "0" [] d = 1 -> "1" [] d = 2 -> "2"
                  [] d = 3 -> "3" [] d = 4 -> "4" [] d = 5 -> "5"
                  [] d = 6 -> "6" [] d = 7 -> "7" [] d = 8 -> "8"
                  [] OTHER -> "9"

RECURSIVE Str(_)
\* str(port) inside the f-string
Str(n) == IF n < 10 THEN << DigitChar(n) >>
          ELSE Str(n \div 10) \o << DigitChar(n % 10) >>

\* address = f'{ip}:{port}'
Address(ip, port) == ip \o << ":" >> \o Str(port)

\* Python's  frag in addr  on strings
Contains(frag, addr) ==
    \E k \in 0..(Len(addr) - Len(frag)) :
        \A j \in 1..Len(frag) : addr[k + j] = frag[j]

RemoveAt(s, i) == SubSeq(s, 1, i - 1) \o SubSeq(s, i + 1, Len(s))

----------------------------------------------------------------------------
(* Records *)

\* MCServer.__init__ with a message: guild and channel come from the message
MCServer(name, address, m) ==
    [ name    |-> name,
      address |-> address,
      guild   |-> GuildOf(msgs[m].channel),
      channel |-> msgs[m].channel,
      message |-> m ]

\* one server_dict of write_json_file
ServerDict(s) ==
    [ name       |-> s.name,
      address    |-> s.address,
      guild_id   |-> s.guild,
      channel_id |-> s.channel,
      message_id |-> s.message ]

\* write_json_file: the whole list, in list order, replaces the file
write_json_file(svs) ==
    [ exists |-> TRUE, data |-> [ i \in 1..Len(svs) |-> ServerDict(svs[i]) ] ]

\* MCServer.get_content: TRUE when it returns content, FALSE when it raises.
\* status() raises for an unreachable server; iterating players.sample
\* raises when the server reports players but no sample (sample is None).
get_content(q) == q = "online"

\* the last step: which handler ran and how it ended; for a removal the
\* caller's channel and the server removed, for a finished load its record
Out(op, kind, channel, target, info) ==
    [ op |-> op, kind |-> kind, channel |-> channel,
      target |-> target, info |-> info ]

NoInfo == [ data |-> <<>>, res |-> <<>>, quiet |-> TRUE ]

Internal(op, kind) == Out(op, kind, "", <<>>, NoInfo)

\* a suspended load stops being alone on the registry once another
\* coroutine changes client.servers
Disturb(ls) == [ i \in DOMAIN ls |-> [ ls[i] EXCEPT !.quiet = FALSE ] ]

\* no status reply is being rendered
NoReply ==
    [ stage |-> "none", name |-> "",
      st |-> [ ok |-> FALSE, desc |-> "", online |-> 0,
               sample |-> [ given |-> FALSE, names |-> <<>> ] ],
      text |-> "" ]

PollOff ==
    [ pc |-> "off", i |-> 0, cur |-> <<>>, q |-> "none",
      tickStart |-> <<>>, edited |-> {}, qfail |-> {} ]

----------------------------------------------------------------------------
(* Initial state: the process has just been started for the first time *)

Init ==
    /\ servers = <<>>
    /\ file = [ exists |-> FALSE, data |-> <<>> ]
    /\ msgs = <<>>
    /\ adds = <<>>
    /\ loads = <<>>
    /\ poll = PollOff
    /\ removed = {}
    /\ events = 0
    /\ out = Internal("init", "none")
    /\ shown = NoReply

----------------------------------------------------------------------------
(* addserver_command *)

\* the duplicate loop leaves after looking at the first server only
IsDuplicate_first(address) ==
    Len(servers) > 0 /\ servers[1].address = address

\* the duplicate loop of addserver_command: some server has this address
IsDuplicate(address) ==
    \E i \in 1..Len(servers) : servers[i].address = address

\* From the call to the first suspension: the duplicate check, MCServer(),
\* and make_message up to channel.send.  When get_content raises,
\* handle_exception dereferences self.message, which is None, and the
\* AttributeError leaves the command.
addserver_command(ip, name, port, ch) ==
    LET address == Address(ip, port) IN
    IF IsDuplicate(address)
    THEN /\ out' = Internal("addserver", "already")
         /\ UNCHANGED <<servers, file, msgs, adds, loads, poll, removed>>
    ELSE \E q \in StatusResults :
           IF get_content(q)
           THEN /\ Len(adds) < MaxAdds
                /\ adds' = Append(adds, [ name |-> name, address |-> address,
                                          channel |-> ch ])
                /\ out' = Internal("addserver", "sending")
                /\ UNCHANGED <<servers, file, msgs, loads, poll, removed>>
           ELSE /\ out' = Internal("addserver", "error")
                /\ UNCHANGED <<servers, file, msgs, adds, loads, poll, removed>>

\* the exception of a failed channel.send is swallowed and the server is
\* appended without a message (m = 0)
Appended_swallowed(a, m) ==
    Append(servers, [ name |-> a.name, address |-> a.address,
                      guild |-> GuildOf(a.channel),
                      channel |-> a.channel, message |-> m ])

\* client.servers after make_message for the pending add a: m is the id of
\* the message created, 0 when channel.send raised and the exception left
\* the command before the append
Appended(a, m) ==
    IF m = 0 THEN servers
    ELSE Append(servers, [ name |-> a.name, address |-> a.address,
                           guild |-> GuildOf(a.channel),
                           channel |-> a.channel, message |-> m ])

\* channel.send returns: make_message stores the message, the command
\* appends the server and writes the file.  When channel.send raises,
\* handle_exception raises AttributeError (self.message is None) and the
\* command ends without appending.
make_message(k, sent) ==
    /\ k \in DOMAIN adds
    /\ LET a == adds[k] IN
       IF sent
       THEN /\ Len(msgs) < MaxMsgs
            /\ LET m == Len(msgs) + 1 IN
               /\ msgs' = Append(msgs, [ channel |-> a.channel, alive |-> TRUE,
                                         content |-> "online" ])
               /\ servers' = Appended(a, m)
               /\ file' = write_json_file(servers')
               /\ out' = Internal("make_message", "added")
            /\ loads' = Disturb(loads)
       ELSE /\ out' = Internal("make_message", "error")
            /\ servers' = Appended(a, 0)
            /\ UNCHANGED <<file, msgs, loads>>
    /\ adds' = RemoveAt(adds, k)
    /\ UNCHANGED <<poll, removed>>

----------------------------------------------------------------------------
(* removeserver_command *)

\* the condition of the loop in removeserver_command
\* the guild comparison is left out of the loop's condition
RemoveMatch_anyguild(s, ip, ch) == Contains(ip, s.address)

RemoveMatch(s, ip, ch) == Contains(ip, s.address) /\ s.guild = GuildOf(ch)

\* index of the first server the loop removes, 0 when it removes none
FirstMatch(ip, ch) ==
    IF \E i \in 1..Len(servers) : RemoveMatch(servers[i], ip, ch)
    THEN CHOOSE i \in 1..Len(servers) :
            /\ RemoveMatch(servers[i], ip, ch)
            /\ \A j \in 1..(i - 1) : ~RemoveMatch(servers[j], ip, ch)
    ELSE 0

\* the addresses the "Did not find server" response lists, one per line
Existing == [ i \in 1..Len(servers) |-> servers[i].address ]

\* what a removeserver call is answered with: data holds the address lines
\* of the response, res the ip argument of the call
Answer(ip, lines) == [ data |-> lines, res |-> ip, quiet |-> TRUE ]

\* the whole command up to its answer; it never calls write_json_file
removeserver_command(ip, ch) ==
    LET i == FirstMatch(ip, ch) IN
    /\ IF i > 0
       THEN /\ servers' = RemoveAt(servers, i)
            /\ removed' = removed \cup { servers[i].message }
            /\ loads' = Disturb(loads)
            /\ out' = Out("removeserver", "removed", ch, << servers[i] >>,
                          Answer(ip, <<>>))
       ELSE /\ out' = IF servers = <<>>
                      THEN Out("removeserver", "empty", ch, <<>>,
                               Answer(ip, <<>>))
                      ELSE Out("removeserver", "notfound", ch, <<>>,
                               Answer(ip, Existing))
            /\ UNCHANGED <<servers, removed, loads>>
    /\ UNCHANGED <<file, msgs, adds, poll>>

----------------------------------------------------------------------------
(* on_ready and read_json_file *)

\* tasks.Loop.start(), guarded by is_running(): a loop that never ran or
\* that ended on an exception is started, a running one is left alone
StartPoll(p) ==
    IF p.pc \in { "off", "dead" } THEN [ PollOff EXCEPT !.pc = "wait" ] ELSE p

\* the inner loop of read_json_file: a server with this name and address
Found(item, svs) ==
    \E i \in 1..Len(svs) :
        svs[i].name = item.name /\ svs[i].address = item.address

\* guild, channel and message of a record can all be looked up
Resolvable(item) ==
    item.message_id \in DOMAIN msgs /\ msgs[item.message_id].alive

\* what channel.fetch_message can answer: TRUE the message, FALSE an exception
FetchOutcomes(item) == IF Resolvable(item) THEN { TRUE, FALSE } ELSE { FALSE }

RECURSIVE NextItem(_, _, _)
\* read_json_file runs on without suspending over the records it recognises;
\* this is the index of the next record it fetches, Len(data)+1 at the end
NextItem(data, idx, svs) ==
    IF idx > Len(data) THEN idx
    ELSE IF Found(data[idx], svs) THEN NextItem(data, idx + 1, svs)
    ELSE idx

\* the records among data[from..to-1] that could have been resolved
ResolvableIn(data, from, to) ==
    SelectSeq(SubSeq(data, from, to - 1), LAMBDA r : Resolvable(r))

\* on_ready from the event to the first fetch_message, or to its end when
\* nothing is fetched
on_ready ==
    IF servers # <<>>
    THEN /\ poll' = StartPoll(poll)
         /\ out' = Internal("on_ready", "skipped")
         /\ UNCHANGED <<servers, file, msgs, adds, loads, removed>>
    ELSE IF ~file.exists
    THEN /\ poll' = StartPoll(poll)
         /\ out' = Internal("on_ready", "nofile")
         /\ UNCHANGED <<servers, file, msgs, adds, loads, removed>>
    ELSE LET data == file.data
             j    == NextItem(data, 1, servers)
         IN IF j > Len(data)
            THEN /\ poll' = StartPoll(poll)
                 /\ out' = Out("on_ready", "loaded", "", <<>>,
                               [ data |-> data, res |-> ResolvableIn(data, 1, j),
                                 quiet |-> TRUE ])
                 /\ UNCHANGED <<servers, file, msgs, adds, loads, removed>>
            ELSE /\ Len(loads) < MaxLoads
                 /\ loads' = Append(loads,
                                [ data |-> data, idx |-> j,
                                  res |-> ResolvableIn(data, 1, j), quiet |-> TRUE ])
                 /\ out' = Internal("on_ready", "fetching")
                 /\ UNCHANGED <<servers, file, msgs, adds, poll, removed>>

\* read_json_file rewrites info.json although it only has to read it
FileAfterRead_rewritten(svs) == write_json_file(svs)

\* info.json once read_json_file is through with it: the file is opened
\* with mode "r" and closed, whatever was recovered
FileAfterRead(svs) == file

\* fetch_message returns or raises for the record a load is waiting on; the
\* load then runs to its next fetch_message, or to the end of on_ready
read_json_file(k, fetched) ==
    /\ k \in DOMAIN loads
    /\ LET l    == loads[k]
           item == l.data[l.idx]
           svs  == IF fetched
                   THEN Append(servers,
                               MCServer(item.name, item.address, item.message_id))
                   ELSE servers
           j    == NextItem(l.data, l.idx + 1, svs)
           res  == (IF fetched THEN Append(l.res, item) ELSE l.res)
                     \o ResolvableIn(l.data, l.idx + 1, j)
           rest == IF fetched THEN Disturb(loads) ELSE loads
       IN /\ fetched \in FetchOutcomes(item)
          /\ servers' = svs
          /\ IF j > Len(l.data)
             THEN /\ loads' = RemoveAt(rest, k)
                  /\ poll' = StartPoll(poll)
                  /\ out' = Out("read_json_file", "loaded", "", <<>>,
                                [ data |-> l.data, res |-> res, quiet |-> l.quiet ])
             ELSE /\ loads' = [ rest EXCEPT ![k] = [ l EXCEPT !.idx = j, !.res = res ] ]
                  /\ poll' = poll
                  /\ out' = Internal("read_json_file", "fetching")
    /\ file' = FileAfterRead(servers')
    /\ UNCHANGED <<msgs, adds, removed>>

----------------------------------------------------------------------------
(* poll_servers *)

\* what message.edit can answer: TRUE edited, FALSE an exception
EditOutcomes(m) == IF msgs[m].alive THEN { TRUE, FALSE } ELSE { FALSE }

\* the for statement of poll_servers takes the next element of the live
\* list client.servers by position, and get_status runs up to its first
\* message.edit: with the content when get_content returns, inside
\* handle_exception when it raises
Iterate(p, q) ==
    IF p.i < Len(servers)
    THEN LET s == servers[p.i + 1] IN
         [ p EXCEPT !.i = p.i + 1,
                    !.cur = << s >>,
                    !.q = q,
                    !.pc = IF get_content(q) THEN "edit" ELSE "hedit",
                    !.qfail = IF q = "fail" THEN @ \cup { s.message } ELSE @ ]
    ELSE [ p EXCEPT !.pc = "wait", !.cur = <<>>, !.q = "none" ]

\* the content is sent as a new message in the channel of message m
SetContent_resend(m, c) ==
    Append(msgs, [ channel |-> msgs[m].channel, alive |-> TRUE, content |-> c ])

\* message.edit(content=c) on message m
SetContent(m, c) == [ msgs EXCEPT ![m].content = c ]

\* a tick begins
poll_servers ==
    /\ poll.pc = "wait"
    /\ \E q \in StatusResults :
         poll' = Iterate([ poll EXCEPT !.i = 0, !.tickStart = servers,
                                       !.edited = {}, !.qfail = {} ], q)
    /\ out' = Internal("poll_servers", "tick")
    /\ UNCHANGED <<servers, file, msgs, adds, loads, removed>>

\* the edit in the try block of get_status returns or raises
get_status(edited) ==
    /\ poll.pc = "edit"
    /\ LET m == poll.cur[1].message IN
       /\ edited \in EditOutcomes(m)
       /\ IF edited
          THEN /\ msgs' = SetContent(m, "online")
               /\ \E q \in StatusResults :
                    poll' = Iterate([ poll EXCEPT !.edited = @ \cup { m } ], q)
          ELSE /\ msgs' = msgs
               /\ poll' = [ poll EXCEPT !.pc = "hedit" ]
    /\ out' = Internal("get_status", IF edited THEN "edited" ELSE "raised")
    /\ UNCHANGED <<servers, file, adds, loads, removed>>

\* the edit in handle_exception returns or raises; nothing catches what it
\* raises, so the exception ends the poll_servers task
handle_exception(edited) ==
    /\ poll.pc = "hedit"
    /\ LET m == poll.cur[1].message IN
       /\ edited \in EditOutcomes(m)
       /\ IF edited
          THEN /\ msgs' = SetContent(m, "offline")
               /\ \E q \in StatusResults :
                    poll' = Iterate([ poll EXCEPT !.edited = @ \cup { m } ], q)
          ELSE /\ msgs' = msgs
               /\ poll' = [ poll EXCEPT !.pc = "dead" ]
    /\ out' = Internal("handle_exception", IF edited THEN "edited" ELSE "raised")
    /\ UNCHANGED <<servers, file, adds, loads, removed>>

----------------------------------------------------------------------------
(* Environment *)

\* client.run ends and the program is started again: memory is lost,
\* info.json and the Discord messages stay
Restart ==
    /\ servers' = <<>>
    /\ adds' = <<>>
    /\ loads' = <<>>
    /\ poll' = PollOff
    /\ out' = Internal("restart", "none")
    /\ UNCHANGED <<file, msgs, removed>>

\* somebody deletes a status message in Discord
DeleteMessage(m) ==
    /\ m \in DOMAIN msgs
    /\ msgs[m].alive
    /\ msgs' = [ msgs EXCEPT ![m].alive = FALSE ]
    /\ out' = Internal("delete", "none")
    /\ UNCHANGED <<servers, file, adds, loads, poll, removed>>

----------------------------------------------------------------------------

\* one more command or outside event
Event == events < MaxEvents /\ events' = events + 1

AddServer    == \E ip \in Ips, name \in Names, port \in Ports, ch \in AddChannels :
                   Event /\ addserver_command(ip, name, port, ch)
                         /\ UNCHANGED shown
MakeMessage  == \E k \in 1..MaxAdds, sent \in BOOLEAN :
                   make_message(k, sent) /\ UNCHANGED <<events, shown>>
RemoveServer == \E ip \in Frags, ch \in Channels :
                   Event /\ removeserver_command(ip, ch) /\ UNCHANGED shown
OnReady      == Event /\ on_ready /\ UNCHANGED shown
ReadJsonFile == \E k \in 1..MaxLoads, fetched \in BOOLEAN :
                   read_json_file(k, fetched) /\ UNCHANGED <<events, shown>>
PollServers  == poll_servers /\ UNCHANGED <<events, shown>>
GetStatus    == \E edited \in BOOLEAN :
                   get_status(edited) /\ UNCHANGED <<events, shown>>
HandleException == \E edited \in BOOLEAN :
                   handle_exception(edited) /\ UNCHANGED <<events, shown>>
Delete       == \E m \in 1..MaxMsgs :
                   Event /\ DeleteMessage(m) /\ UNCHANGED shown
RestartProcess == Event /\ Restart /\ UNCHANGED shown

Next ==
    \/ AddServer
    \/ MakeMessage
    \/ RemoveServer
    \/ OnReady
    \/ ReadJsonFile
    \/ PollServers
    \/ GetStatus
    \/ HandleException
    \/ RestartProcess
    \/ Delete

Spec == Init /\ [][Next]_vars

----------------------------------------------------------------------------
(* The text of a status message *)

RenderNames == { "Survival", "Creative" }
Players     == { "Alice", "Bob" }
Failures    == { "ConnectionRefused", "timed out" }

\* what iterating players.sample raises when the sample is None
NotIterable == "'NoneType' object is not iterable"

\* the player lists a reply can carry
Samples ==
    { [ given |-> FALSE, names |-> <<>> ] } \cup
    { [ given |-> TRUE, names |-> ns ] :
        ns \in UNION { [ 1..n -> Players ] : n \in 0..MaxPlayers } }

\* what self.server.status() gives: an exception with a description, or a
\* status with players.online and players.sample
Replies ==
    { [ ok |-> FALSE, desc |-> d, online |-> 0,
        sample |-> [ given |-> FALSE, names |-> <<>> ] ] : d \in Failures } \cup
    { [ ok |-> TRUE, desc |-> "", online |-> n, sample |-> sm ] :
        n \in 0..MaxPlayers, sm \in Samples }

RECURSIVE NumStr(_)
\* {status.players.online} inside the f-string
NumStr(n) == IF n < 10 THEN DigitChar(n)
             ELSE NumStr(n \div 10) \o DigitChar(n % 10)

RECURSIVE NameLines(_)
\* the for loop over players.sample: one name and a newline each
NameLines(names) ==
    IF names = <<>> THEN ""
    ELSE names[1] \o "\n" \o NameLines(Tail(names))

\* the singular form is also used for two players
PlayerSection_upto2(online, names) ==
    IF online = 0 THEN "s."
    ELSE (IF online <= 2 THEN ".\n\nPlayer:\n" ELSE "s.\n\nPlayers:\n")
            \o NameLines(names)

\* what get_content appends after "online player" when it does not raise
PlayerSection(online, names) ==
    IF online = 0 THEN "s."
    ELSE (IF online = 1 THEN ".\n\nPlayer:\n" ELSE "s.\n\nPlayers:\n")
            \o NameLines(names)

\* MCServer.get_content on a reply: the content, or the exception raised
\* (by status(), or by the for loop when the sample is None)
get_content_text(name, st) ==
    IF ~st.ok THEN [ raised |-> TRUE, text |-> st.desc ]
    ELSE IF st.online # 0 /\ ~st.sample.given
    THEN [ raised |-> TRUE, text |-> NotIterable ]
    ELSE [ raised |-> FALSE,
           text |-> name \o " is **online** with " \o NumStr(st.online)
                         \o " online player"
                         \o PlayerSection(st.online, st.sample.names) ]

\* the content handle_exception gives the message
handle_exception_text(name, e) == name \o " is **offline**: " \o e

\* get_status on one reply: the content, or what handle_exception makes of
\* the exception
Show ==
    /\ shown.stage = "reply"
    /\ LET c == get_content_text(shown.name, shown.st) IN
       shown' = [ shown EXCEPT
                    !.stage = "shown",
                    !.text = IF c.raised
                             THEN handle_exception_text(shown.name, c.text)
                             ELSE c.text ]
    /\ UNCHANGED <<servers, file, msgs, adds, loads, poll, removed, events, out>>

InitRender ==
    /\ servers = <<>>
    /\ file = [ exists |-> FALSE, data |-> <<>> ]
    /\ msgs = <<>>
    /\ adds = <<>>
    /\ loads = <<>>
    /\ poll = PollOff
    /\ removed = {}
    /\ events = 0
    /\ out = Internal("init", "none")
    /\ shown \in { [ stage |-> "reply", name |-> n, st |-> st, text |-> "" ] :
                      n \in RenderNames, st \in Replies }

NextRender == Show

SpecRender == InitRender /\ [][NextRender]_vars

----------------------------------------------------------------------------
(* Properties *)

\* the (name, address, message id) of each server, in list order
Bindings(svs) ==
    [ i \in 1..Len(svs) |->
        [ name |-> svs[i].name, address |-> svs[i].address,
          message_id |-> svs[i].message ] ]

\* the (name, address, message id) of each record, in file order
RecordBindings(data) ==
    [ i \in 1..Len(data) |->
        [ name |-> data[i].name, address |-> data[i].address,
          message_id |-> data[i].message_id ] ]

InRegistry(m) == \E i \in 1..Len(servers) : servers[i].message = m

\* C1: the registry never holds two entries with the same address, whatever
\* the interleaving of add, remove, load and poll steps.
C1_AddressUnique ==
    \A i, j \in 1..Len(servers) :
        i # j => servers[i].address # servers[j].address

\* C2: an addserver call whose address is the address of a server in the
\* registry, in any guild or channel, is answered "already added" and
\* changes neither the registry nor info.json, creates no message and
\* starts no message creation.
C2_DuplicateAddRejected ==
    [][ out'.op = "addserver" =>
          \A ip \in Ips, name \in Names, port \in Ports, ch \in AddChannels :
            ( /\ \E i \in 1..Len(servers) : servers[i].address = Address(ip, port)
              /\ addserver_command(ip, name, port, ch) )
            => ( /\ out'.kind = "already"
                 /\ UNCHANGED <<servers, file, msgs, adds>> ) ]_vars

\* C2 witness: an addserver call has just been rejected as a duplicate of a
\* server that is not the first of a registry of two.
C2_Witness ==
    /\ out.op = "addserver"
    /\ out.kind = "already"
    /\ Len(servers) = 2
    /\ servers[1].address # servers[2].address

\* C3: a removeserver call never removes a server whose message is in
\* another (guild, channel) than the one the call came from.
C3_ScopedRemoval ==
    out.kind = "removed" =>
        /\ out.target[1].guild = GuildOf(out.channel)
        /\ out.target[1].channel = out.channel

\* C4: right after a completed add and right after a completed remove, with
\* no add and no load in progress, info.json holds exactly the records of
\* the servers in the registry, in registry order.
C4_FlushOnMutation ==
    ( /\ out.kind \in { "added", "removed" }
      /\ adds = <<>>
      /\ loads = <<>> )
    => file = write_json_file(servers)

\* C5: a server that removeserver has taken out of the registry (told by
\* its message) never comes back into it.
C5_RemovalDurable ==
    [][ \A m \in removed : ~InRegistry(m) => ~InRegistry(m)' ]_vars

\* C6: a load that ran alone on an empty registry, and all of whose records
\* were resolvable, ends with the registry holding the (name, address,
\* message id) of the records, in file order.
C6_RoundTrip ==
    ( /\ out.kind = "loaded"
      /\ out.info.quiet
      /\ out.info.res = out.info.data )
    => Bindings(servers) = RecordBindings(out.info.data)

\* C7: a load that ran alone on an empty registry ends with the registry
\* holding exactly the resolvable records, in file order.
C7_PartialRecovery ==
    ( /\ out.kind = "loaded"
      /\ out.info.quiet )
    => Bindings(servers) = RecordBindings(out.info.res)

\* C8: no step of on_ready or read_json_file changes info.json, creates a
\* message or starts creating one; and on_ready with no info.json leaves
\* the registry empty and ends normally, with the poll loop started.
C8_LoadCreatesNothing ==
    [][ out'.op \in { "on_ready", "read_json_file" } =>
          /\ file' = file
          /\ msgs' = msgs
          /\ adds' = adds
          /\ (servers = <<>> /\ ~file.exists /\ out'.op = "on_ready")
                => ( /\ servers' = <<>>
                     /\ loads' = loads
                     /\ out'.kind = "nofile"
                     /\ poll'.pc \notin { "off", "dead" } ) ]_vars

\* C8 witness: a load has ended in which some record resolved and some
\* record did not.
C8_Witness ==
    /\ out.op = "read_json_file"
    /\ out.kind = "loaded"
    /\ out.info.res # <<>>
    /\ Len(out.info.res) < Len(out.info.data)
    /\ servers # <<>>

\* a tick is over: it ran to its end, or an exception ended the task
TickOver == poll.pc \in { "wait", "dead" }

\* C9: in a tick over an unchanged registry of servers with different
\* addresses, in which some server's status query failed, that server's
\* message gets offline content and every other server's message is edited
\* in the same tick.
C9_FaultIsolation ==
    ( /\ TickOver
      /\ poll.tickStart = servers
      /\ C1_AddressUnique
      /\ poll.qfail # {} )
    => \A i \in 1..Len(servers) :
          LET m == servers[i].message IN
          IF m \in poll.qfail
          THEN m \in poll.edited => msgs[m].content = "offline"
          ELSE m \in poll.edited

\* C10: no failure while one server is processed ends the poll_servers task.
C10_LoopSurvives == poll.pc # "dead"

\* the servers of a list, as a set
Members(svs) == { svs[i] : i \in 1..Len(svs) }

\* C11: a tick processes only servers that were in the registry when the
\* tick began, and a tick that ran to its end has processed every server
\* that was in the registry when it began and is still in it.
C11_TickSnapshot ==
    /\ poll.cur # <<>> => poll.cur[1] \in Members(poll.tickStart)
    /\ poll.pc = "wait" =>
          \A s \in Members(poll.tickStart) :
              s \in Members(servers) => s.message \in poll.edited

\* the text the formats give for a reply with a player list, with the
\* words online and offline written as w1 and w0
FormatText(name, st, w1, w0) ==
    IF ~st.ok THEN name \o " is " \o w0 \o ": " \o st.desc
    ELSE LET n    == st.online
             head == name \o " is " \o w1 \o " with " \o NumStr(n) IN
         IF n = 0 THEN head \o " online players."
         ELSE IF n = 1
         THEN head \o " online player.\n\nPlayer:\n" \o NameLines(st.sample.names)
         ELSE head \o " online players.\n\nPlayers:\n" \o NameLines(st.sample.names)

\* the reply is a failure or carries a player list
HasNameList(st) == ~st.ok \/ st.sample.given

C13_MessageBound ==
    [][ /\ \A i \in 1..Len(servers') :
             LET s == servers'[i] IN
             /\ s.message \in DOMAIN msgs'
             /\ s.channel = msgs'[s.message].channel
             /\ s.guild = GuildOf(s.channel)
        /\ (out'.op \in { "addserver", "make_message" } /\ out'.kind = "error")
              => (servers' = servers /\ file' = file) ]_vars

\* C13 witness: a message creation has failed for an add while the registry
\* holds a server.
C13_Witness ==
    /\ out.op = "make_message"
    /\ out.kind = "error"
    /\ servers # <<>>

\* C14: an add of an address no server in the registry has is never ended
\* by the state of the Minecraft server: the call goes on to create the
\* message, and once the message is created the server is in the registry
\* and in info.json.
C14_AddInserts ==
    /\ out.op = "addserver" => out.kind \in { "already", "sending" }
    /\ (out.op = "make_message" /\ out.kind = "added") =>
          /\ servers # <<>>
          /\ servers[Len(servers)].message = Len(msgs)
          /\ file = write_json_file(servers)

\* a server is in the scope of a call from channel ch when its message is
\* in that channel of that guild
InScope(s, ch) == s.guild = GuildOf(ch) /\ s.channel = ch

\* C15: the "Did not find server" response lists exactly the addresses of
\* the servers registered in the caller's scope, so it does not depend on
\* the servers of other scopes.
C15_NotFoundInScope ==
    (out.op = "removeserver" /\ out.kind = "notfound") =>
        { out.info.data[i] : i \in 1..Len(out.info.data) }
            = { s.address : s \in { t \in Members(servers) : InScope(t, out.channel) } }

\* C16: a step that writes offline content to a server's message is taken
\* only in a tick in which that server's status query failed.
C16_OfflineOnlyOnFailure ==
    [][ (out'.op = "handle_exception" /\ out'.kind = "edited")
           => poll.q = "fail" ]_vars

\* C17: a successful removeserver call removes exactly one server, the
\* first in registry order whose address contains the given ip and whose
\* (guild, channel) is the caller's; all other servers stay, in their order.
C17_RemovesFirstInScope ==
    [][ (out'.op = "removeserver" /\ out'.kind = "removed") =>
          \E i \in 1..Len(servers) :
             /\ Contains(out'.info.res, servers[i].address)
             /\ InScope(servers[i], out'.channel)
             /\ \A j \in 1..(i - 1) :
                   ~(Contains(out'.info.res, servers[j].address)
                       /\ InScope(servers[j], out'.channel))
             /\ out'.target = << servers[i] >>
             /\ servers' = RemoveAt(servers, i) ]_vars

PollOps == { "poll_servers", "get_status", "handle_exception" }

\* C18: a step of a poll tick changes the content of messages only: the
\* registry with every server's name, address, guild, channel and message
\* id, info.json and the set of messages stay as they are; and a server
\* record, message id included, enters the registry only by an add or a
\* load and is never changed while it is there.
C18_TickEditsOnly ==
    [][ /\ out'.op \in PollOps =>
             /\ servers' = servers
             /\ file' = file
             /\ DOMAIN msgs' = DOMAIN msgs
             /\ \A m \in DOMAIN msgs :
                   /\ msgs'[m].channel = msgs[m].channel
                   /\ msgs'[m].alive = msgs[m].alive
        /\ out'.op \notin { "make_message", "read_json_file" } =>
             Members(servers') \subseteq Members(servers) ]_vars

\* C18 witness: a tick has written offline content to the message of a
\* server in the registry.
C18_Witness ==
    /\ out.op = "handle_exception"
    /\ out.kind = "edited"
    /\ \E s \in Members(servers) : msgs[s.message].content = "offline"

\* C19: no step of a poll tick is taken while a read_json_file call is
\* suspended between two of its records.
C19_LoadBeforePoll ==
    [][ out'.op \in PollOps => loads = <<>> ]_vars

\* C20: a removeserver call from a guild leaves the servers of all other
\* guilds in the registry, in their order, whatever ip it is given, and
\* leaves the whole registry unchanged when no server of its guild has an
\* address containing ip.
C20_GuildIsolation ==
    [][ out'.op = "removeserver" =>
          LET g == GuildOf(out'.channel)
              Other(s) == s.guild # g
              Mine(s) == s.guild = g /\ Contains(out'.info.res, s.address)
          IN /\ SelectSeq(servers', Other) = SelectSeq(servers, Other)
             /\ out'.kind = "removed" => out'.target[1].guild = g
             /\ SelectSeq(servers, Mine) = <<>> => servers' = servers ]_vars

\* C20 witness: a call with the empty ip has removed a server of its own
\* guild that was added after a server of another guild, which is still
\* first in the registry.
C20_Witness ==
    /\ out.op = "removeserver"
    /\ out.kind = "removed"
    /\ out.info.res = <<>>
    /\ servers # <<>>
    /\ servers[1].guild # GuildOf(out.channel)
    /\ servers[1].message < out.target[1].message

====
